---- MODULE Spec2Model ----
(***************************************************************************)
(* The health engine of netdata (src/health/health.c): one host, its alarm *)
(* registry, its alarm log, the dispatcher of notifications, the main loop *)
(* of health_main and a concurrent configuration reload.                   *)
(***************************************************************************)
EXTENDS Integers, Sequences, FiniteSets, TLC

\* ------------------------------------------------------------------ bounds

\* the realtime clock (seconds) is followed up to this value when no reload runs
MaxTime == 6
\* and up to this value with a concurrent reload
MaxReloadTime == 4
\* unique ids handed out by the alarm log are followed up to this value
MaxLogId == 6
\* host->health_log.max, the configured size of the alarm log
HealthLogMax == 3
\* number of configuration reloads followed
MaxReloads == 1
\* config "run at least every seconds" (min_run_every)
MinRunEvery == 1
\* and how much higher it may be configured where the period of the ticks is
\* followed
MaxRunEveryExtra == 1
\* the longest the main loop wakes up after next_run
MaxOversleep == 2

\* config "postpone alarms during hibernation for seconds" (hibernation_delay)
HibernationDelay == 2
\* the delays of a configuration are followed up to this value when the
\* hysteresis is followed alone
MaxDelay == 2
\* and the clock of the status changes up to this value
MaxHysteresisTime == 4

\* the reloads and the clock followed when health_reload is called repeatedly
MaxManyReloads == 3
MaxManyReloadTime == 2

\* the clock is followed up to MaxCommandTime when the silencer store changes
MaxCommandTime == 4

\* the clock is followed up to MaxExitTime when the exit flag may be set
MaxExitTime == 4

\* the silencers of a store when update_disabled_silenced is followed alone
MaxSilencers == 2

\* ------------------------------------------------------------ RRDCALC_STATUS

RRDCALC_STATUS_REMOVED == -2
RRDCALC_STATUS_UNDEFINED == -1
RRDCALC_STATUS_UNINITIALIZED == 0
RRDCALC_STATUS_CLEAR == 1
RRDCALC_STATUS_RAISED == 2
RRDCALC_STATUS_WARNING == 3
RRDCALC_STATUS_CRITICAL == 4

\* ------------------------------------------------------- calculated numbers

\* a calculated_number is NaN, infinite or finite (an integer here)
Num(c, v) == [class |-> c, v |-> v]
NAN == Num("nan", 0)
INF == Num("inf", 0)
Finite(v) == Num("finite", v)

\* the outcome of expression_evaluate(): ok = 0 is a failed evaluation
Eval(ok, n) == [ok |-> ok, result |-> n]
EvalFailed == Eval(FALSE, NAN)

rrdcalc_value2status(n) ==
    IF n.class = "nan" \/ n.class = "inf" THEN RRDCALC_STATUS_UNDEFINED
    ELSE IF n.v # 0 THEN RRDCALC_STATUS_RAISED
    ELSE RRDCALC_STATUS_CLEAR

\* lines 723-773: the status of one expression; has = the alarm has the expression
ExpressionStatus(has, ev) ==
    IF has /\ ev.ok THEN rrdcalc_value2status(ev.result)
    ELSE RRDCALC_STATUS_UNDEFINED

\* lines 778-805 with a clear critical expression clearing the status whatever
\* the warning expression gave
ComposeStatusCriticalClears(warning_status, critical_status) ==
    LET s1 == IF warning_status = RRDCALC_STATUS_CLEAR THEN RRDCALC_STATUS_CLEAR
              ELSE IF warning_status = RRDCALC_STATUS_RAISED THEN RRDCALC_STATUS_WARNING
              ELSE RRDCALC_STATUS_UNDEFINED
    IN  IF critical_status = RRDCALC_STATUS_CLEAR THEN RRDCALC_STATUS_CLEAR
        ELSE IF critical_status = RRDCALC_STATUS_RAISED THEN RRDCALC_STATUS_CRITICAL
        ELSE s1

\* lines 778-805: the two switch statements
ComposeStatus(warning_status, critical_status) ==
    LET s1 == IF warning_status = RRDCALC_STATUS_CLEAR THEN RRDCALC_STATUS_CLEAR
              ELSE IF warning_status = RRDCALC_STATUS_RAISED THEN RRDCALC_STATUS_WARNING
              ELSE RRDCALC_STATUS_UNDEFINED
    IN  IF critical_status = RRDCALC_STATUS_CLEAR
        THEN (IF s1 = RRDCALC_STATUS_UNDEFINED THEN RRDCALC_STATUS_CLEAR ELSE s1)
        ELSE IF critical_status = RRDCALC_STATUS_RAISED THEN RRDCALC_STATUS_CRITICAL
        ELSE s1

\* ------------------------------------------------------------ alarm registry

AlarmIds == {1, 2}

\* delay_multiplier is a float in the source; here a ratio num/den
Ratio(n, d) == [num |-> n, den |-> d]

\* (int)(x * multiplier): the cast truncates toward zero
MulTrunc(x, m) ==
    LET p == x * m.num
    IN  IF p >= 0 THEN p \div m.den ELSE -((-p) \div m.den)

\* what the configuration loader (health_readdir) may give alarm `id`: alarm 1
\* is a plain alarm, without or with delays, or without delays and with the
\* option no-clear-notification; alarm 2 is a repeating alarm
Configs(id) ==
    IF id = 1
    THEN { [name |-> "a1", chart |-> "c1", context |-> "ctx1", family |-> "f1",
            has_warning |-> TRUE, has_critical |-> FALSE, update_every |-> 1,
            delay_up_duration |-> d[1], delay_down_duration |-> d[2],
            delay_multiplier |-> Ratio(1, 2), delay_max_duration |-> 8,
            warn_repeat_every |-> 0, crit_repeat_every |-> 0,
            options |-> d[3]] :
           d \in {<<0, 0, {}>>, <<4, 8, {}>>, <<0, 0, {"NO_CLEAR_NOTIFICATION"}>>} }
    ELSE { [name |-> "a2", chart |-> "c2", context |-> "ctx2", family |-> "f2",
            has_warning |-> FALSE, has_critical |-> TRUE, update_every |-> 2,
            delay_up_duration |-> 0, delay_down_duration |-> 0,
            delay_multiplier |-> Ratio(1, 1), delay_max_duration |-> 0,
            warn_repeat_every |-> 0, crit_repeat_every |-> 2,
            options |-> {}] }

\* an alarm as the loader leaves it: linked to its chart, not yet evaluated
NewAlarm(cfg) ==
    [cfg |-> cfg,
     status |-> RRDCALC_STATUS_UNINITIALIZED,
     old_status |-> RRDCALC_STATUS_UNINITIALIZED,
     rrdcalc_flags |-> {},
     next_update |-> 0,
     last_updated |-> 0,
     last_status_change |-> 0,
     last_repeat |-> 0,
     delay_up_current |-> 0,
     delay_down_current |-> 0,
     delay_last |-> 0,
     delay_up_to_timestamp |-> 0]

\* the sets of alarms the configuration may define
AlarmSets == { {1}, {2} }

\* the registries the loader can produce
Registries ==
    UNION { { [i \in ids |-> NewAlarm(c[i])] :
                c \in { f \in [ids -> UNION {Configs(i) : i \in AlarmIds}] :
                          \A i \in ids : f[i] \in Configs(i) } }
            : ids \in AlarmSets }

NoAlarms == [i \in {} |-> 0]

rrdcalc_isrepeating(rc) ==
    rc.cfg.warn_repeat_every > 0 \/ rc.cfg.crit_repeat_every > 0

\* the ids of a registry in the order of the host->alarms list
RECURSIVE SetToSeq(_)
SetToSeq(S) ==
    IF S = {} THEN <<>>
    ELSE LET m == CHOOSE x \in S : \A y \in S : x <= y
         IN  <<m>> \o SetToSeq(S \ {m})

\* lines 811-840 with the test of line 814 taking the deadline itself as past
ApplyHysteresisAtDeadline(rc, status, t) ==
    LET reset == t >= rc.delay_up_to_timestamp
        up0   == MulTrunc(rc.delay_up_current, rc.cfg.delay_multiplier)
        down0 == MulTrunc(rc.delay_down_current, rc.cfg.delay_multiplier)
        up    == IF reset THEN rc.cfg.delay_up_duration
                 ELSE IF up0 > rc.cfg.delay_max_duration THEN rc.cfg.delay_max_duration
                 ELSE up0
        down  == IF reset THEN rc.cfg.delay_down_duration
                 ELSE IF down0 > rc.cfg.delay_max_duration THEN rc.cfg.delay_max_duration
                 ELSE down0
        delay == IF status > rc.status THEN up ELSE down
    IN  [rc EXCEPT !.delay_up_current = up,
                   !.delay_down_current = down,
                   !.delay_last = delay,
                   !.delay_up_to_timestamp = t + delay]

\* lines 811-840: trigger hysteresis on a status change at `t`
ApplyHysteresis(rc, status, t) ==
    LET reset == t > rc.delay_up_to_timestamp
        up0   == MulTrunc(rc.delay_up_current, rc.cfg.delay_multiplier)
        down0 == MulTrunc(rc.delay_down_current, rc.cfg.delay_multiplier)
        up    == IF reset THEN rc.cfg.delay_up_duration
                 ELSE IF up0 > rc.cfg.delay_max_duration THEN rc.cfg.delay_max_duration
                 ELSE up0
        down  == IF reset THEN rc.cfg.delay_down_duration
                 ELSE IF down0 > rc.cfg.delay_max_duration THEN rc.cfg.delay_max_duration
                 ELSE down0
        delay == IF status > rc.status THEN up ELSE down
    IN  [rc EXCEPT !.delay_up_current = up,
                   !.delay_down_current = down,
                   !.delay_last = delay,
                   !.delay_up_to_timestamp = t + delay]

\* lines 810-858: the alarm after its status was composed at `t`; nothing of
\* it changes when the status is the one it has
StatusStep(rc, status, t) ==
    IF status # rc.status
    THEN [ApplyHysteresis(rc, status, t) EXCEPT !.last_status_change = t,
                                                !.old_status = rc.status,
                                                !.status = status]
    ELSE rc

\* ---------------------------------------------------------------- alarm log

\* health_create_alarm_entry: the entry of a transition, not yet linked
health_create_alarm_entry(unique_id, alarm_id, when, duration, old_status, new_status, delay, flags) ==
    [unique_id |-> unique_id,
     alarm_id |-> alarm_id,
     when |-> when,
     duration |-> duration,
     old_status |-> old_status,
     new_status |-> new_status,
     delay |-> delay,
     delay_up_to_timestamp |-> when + delay,
     flags |-> flags,
     exec_code |-> 0]

\* health_alarm_log: push at the head of the chain (the head is the newest)
health_alarm_log(chain, ae) == <<ae>> \o chain

\* lines 848-851 and 884-887: the flags an entry inherits from its alarm
EntryFlags(rc) ==
    (IF "NO_CLEAR_NOTIFICATION" \in rc.cfg.options THEN {"NO_CLEAR_NOTIFICATION"} ELSE {})
    \cup (IF "SILENCED" \in rc.rrdcalc_flags THEN {"SILENCED"} ELSE {})

\* --------------------------------------------------------------- dispatcher

\* what the notifier did: fp = FALSE is a failed popen, code its exit code
ExecResults == { [fp |-> TRUE, code |-> 0], [fp |-> TRUE, code |-> 1],
                 [fp |-> FALSE, code |-> 0] }

\* lines 194-199: the first older entry of the alarm that ran the notifier (0: none)
RECURSIVE FindPrior(_, _, _)
FindPrior(older, i, id) ==
    IF i > Len(older) THEN 0
    ELSE IF older[i].alarm_id = id /\ "EXEC_RUN" \in older[i].flags THEN i
    ELSE FindPrior(older, i + 1, id)

\* lines 177-225 without the else branch of line 210: a clear entry with no
\* notified predecessor goes to the notifier
ShouldNotifyFirstClear(ae, older) ==
    LET t == FindPrior(older, 1, ae.alarm_id)
        noclear == "NO_CLEAR_NOTIFICATION" \in ae.flags
    IN  /\ ~(ae.new_status < RRDCALC_STATUS_CLEAR)
        /\ ~(ae.new_status <= RRDCALC_STATUS_CLEAR /\ noclear)
        /\ (~noclear => (t # 0 => older[t].new_status # ae.new_status))
        /\ ~("SILENCED" \in ae.flags)

\* lines 177-225 with line 203 suppressing after any notified predecessor,
\* whatever its status
ShouldNotifyOnce(ae, older) ==
    LET t == FindPrior(older, 1, ae.alarm_id)
        noclear == "NO_CLEAR_NOTIFICATION" \in ae.flags
    IN  /\ ~(ae.new_status < RRDCALC_STATUS_CLEAR)
        /\ ~(ae.new_status <= RRDCALC_STATUS_CLEAR /\ noclear)
        /\ (~noclear => (t = 0 /\ ae.new_status # RRDCALC_STATUS_CLEAR))
        /\ ~("SILENCED" \in ae.flags)

\* lines 177-220 without the test of the silenced flag of lines 222-225
ShouldNotifySilenced(ae, older) ==
    LET t == FindPrior(older, 1, ae.alarm_id)
        noclear == "NO_CLEAR_NOTIFICATION" \in ae.flags
    IN  /\ ~(ae.new_status < RRDCALC_STATUS_CLEAR)
        /\ ~(ae.new_status <= RRDCALC_STATUS_CLEAR /\ noclear)
        /\ (~noclear =>
              IF t # 0 THEN older[t].new_status # ae.new_status
              ELSE ae.new_status # RRDCALC_STATUS_CLEAR)

\* lines 177-225 without the test of lines 183-188
ShouldNotifyClearToo(ae, older) ==
    LET t == FindPrior(older, 1, ae.alarm_id)
        noclear == "NO_CLEAR_NOTIFICATION" \in ae.flags
    IN  /\ ~(ae.new_status < RRDCALC_STATUS_CLEAR)
        /\ (~noclear =>
              IF t # 0 THEN older[t].new_status # ae.new_status
              ELSE ae.new_status # RRDCALC_STATUS_CLEAR)
        /\ ~("SILENCED" \in ae.flags)

\* lines 183-225 without the test of lines 177-181
ShouldNotifyInternal(ae, older) ==
    LET t == FindPrior(older, 1, ae.alarm_id)
        noclear == "NO_CLEAR_NOTIFICATION" \in ae.flags
    IN  /\ ~(ae.new_status <= RRDCALC_STATUS_CLEAR /\ noclear)
        /\ (~noclear =>
              IF t # 0 THEN older[t].new_status # ae.new_status
              ELSE ae.new_status # RRDCALC_STATUS_CLEAR)
        /\ ~("SILENCED" \in ae.flags)

\* lines 177-225: TRUE when the entry goes to the notifier
ShouldNotify(ae, older) ==
    LET t == FindPrior(older, 1, ae.alarm_id)
        noclear == "NO_CLEAR_NOTIFICATION" \in ae.flags
    IN  /\ ~(ae.new_status < RRDCALC_STATUS_CLEAR)
        /\ ~(ae.new_status <= RRDCALC_STATUS_CLEAR /\ noclear)
        /\ (~noclear =>
              IF t # 0 THEN older[t].new_status # ae.new_status
              ELSE ae.new_status # RRDCALC_STATUS_CLEAR)
        /\ ~("SILENCED" \in ae.flags)

\* lines 174-303 with exec-run set after the notifier has ended well, not
\* before it is spawned
health_alarm_execute_late(ae, older, x) ==
    LET processed == [ae EXCEPT !.flags = @ \cup {"PROCESSED"}]
    IN  IF ~ShouldNotify(ae, older) THEN processed
        ELSE IF ~x.fp THEN processed
        ELSE [processed EXCEPT
                !.flags = @ \cup (IF x.code # 0 THEN {"EXEC_FAILED"} ELSE {"EXEC_RUN"}),
                !.exec_code = x.code]

\* lines 174-303: `older` is the chain from ae->next on, x what the notifier does
health_alarm_execute(ae, older, x) ==
    LET processed == [ae EXCEPT !.flags = @ \cup {"PROCESSED"}]
    IN  IF ~ShouldNotify(ae, older) THEN processed
        ELSE IF ~x.fp THEN [processed EXCEPT !.flags = @ \cup {"EXEC_RUN"}]
        ELSE [processed EXCEPT
                !.flags = @ \cup {"EXEC_RUN"}
                            \cup (IF x.code # 0 THEN {"EXEC_FAILED"} ELSE {}),
                !.exec_code = x.code]

\* no older entry of the alarm ran the notifier
NoPrior == RRDCALC_STATUS_REMOVED - 1

\* the new_status of the newest entry of `older` that belongs to the alarm and
\* ran the notifier
PriorNotifiedStatus(older, id) ==
    LET S == { i \in 1..Len(older) : older[i].alarm_id = id /\ "EXEC_RUN" \in older[i].flags }
    IN  IF S = {} THEN NoPrior
        ELSE older[CHOOSE i \in S : \A j \in S : i <= j].new_status

\* the record kept of one invocation of the dispatcher: the entry as it was
\* given, what was notified before it, and whether the notifier was run
Execution(before, after, older, linked) ==
    [unique_id |-> before.unique_id,
     alarm_id |-> before.alarm_id,
     old_status |-> before.old_status,
     new_status |-> before.new_status,
     flags |-> before.flags,
     prior |-> PriorNotifiedStatus(older, before.alarm_id),
     run |-> "EXEC_RUN" \in after.flags /\ "EXEC_RUN" \notin before.flags,
     linked |-> linked]

\* ---------------------------------------------------------------- silencers

\* a pattern of a silencer: absent (NULL), or the set of strings it matches
Absent == [present |-> FALSE, matches |-> {}]
Pattern(S) == [present |-> TRUE, matches |-> S]
simple_pattern_matches(p, str) == str \in p.matches

HostName == "localhost"

Silencer(a, c, x, h, f) ==
    [alarms_pattern |-> a, charts_pattern |-> c, contexts_pattern |-> x,
     hosts_pattern |-> h, families_pattern |-> f]

\* the silencer stores followed: empty; silence whatever is on this host;
\* disable the alarms of families f1 and f2 (after a silencer that matches nothing)
SilencerStores ==
    { [all_alarms |-> FALSE, stype |-> "STYPE_NONE", silencers |-> <<>>],
      [all_alarms |-> FALSE, stype |-> "STYPE_SILENCE_NOTIFICATIONS",
       silencers |-> << Silencer(Absent, Absent, Absent, Pattern({HostName}), Absent) >>],
      [all_alarms |-> FALSE, stype |-> "STYPE_DISABLE_ALARMS",
       silencers |-> << Silencer(Pattern({"zz"}), Absent, Absent, Absent, Absent),
                        Silencer(Absent, Absent, Absent, Absent, Pattern({"f1", "f2"})) >>] }

\* lines 472-478: the silencer matches the alarm (the chart is linked)
SilencerMatches(s, rc, host) ==
    /\ (~s.alarms_pattern.present \/ simple_pattern_matches(s.alarms_pattern, rc.cfg.name))
    /\ (~s.contexts_pattern.present \/ simple_pattern_matches(s.contexts_pattern, rc.cfg.context))
    /\ (~s.hosts_pattern.present \/ simple_pattern_matches(s.hosts_pattern, host))
    /\ (~s.charts_pattern.present \/ simple_pattern_matches(s.charts_pattern, rc.cfg.chart))
    /\ (~s.families_pattern.present \/ simple_pattern_matches(s.families_pattern, rc.cfg.family))

check_silenced(rc, host, store) ==
    IF \E i \in 1..Len(store.silencers) : SilencerMatches(store.silencers[i], rc, host)
    THEN store.stype
    ELSE "STYPE_NONE"

\* lines 508-535 without the clearing of line 511: the flags the alarm had stay
update_disabled_silenced_sticky(rc, store) ==
    LET cleared == rc.rrdcalc_flags
        st == IF store.all_alarms THEN store.stype
              ELSE check_silenced(rc, HostName, store)
    IN  [rc EXCEPT !.rrdcalc_flags =
            IF st = "STYPE_DISABLE_ALARMS" THEN cleared \cup {"DISABLED"}
            ELSE IF st = "STYPE_SILENCE_NOTIFICATIONS" THEN cleared \cup {"SILENCED"}
            ELSE cleared]

\* lines 508-535: the alarm with its disabled / silenced flags recomputed
update_disabled_silenced(rc, store) ==
    LET cleared == rc.rrdcalc_flags \ {"DISABLED", "SILENCED"}
        st == IF store.all_alarms THEN store.stype
              ELSE check_silenced(rc, HostName, store)
    IN  [rc EXCEPT !.rrdcalc_flags =
            IF st = "STYPE_DISABLE_ALARMS" THEN cleared \cup {"DISABLED"}
            ELSE IF st = "STYPE_SILENCE_NOTIFICATIONS" THEN cleared \cup {"SILENCED"}
            ELSE cleared]

\* -------------------------------------------------------------------- state

VARIABLES
    now,                       \* health_main's now
    next_run,                  \* health_main's next_run
    pc,                        \* where health_main is in its tick
    runnable,                  \* health_main's runnable
    alarms,                    \* host->alarms: alarm id -> RRDCALC
    silencers,                 \* the silencer store
    log,                       \* host->health_log.alarms, the head first
    count,                     \* host->health_log.count
    next_log_id,               \* host->health_log.next_log_id
    health_last_processed_id,  \* host->health_last_processed_id
    rpc,                       \* where health_reload_host is
    reloads,                   \* reloads finished
    executed,                  \* history: the invocations of health_alarm_execute
    fn,                        \* the pure functions' input and result
    health_delay_up_to,        \* host->health_delay_up_to
    monotonic,                 \* the monotonic clock (seconds)
    last_realtime,             \* check_if_resumed_from_suspention's last_realtime
    last_monotonic,            \* check_if_resumed_from_suspention's last_monotonic
    min_run_every,             \* health_main's min_run_every
    netdata_exit,              \* the process-wide exit flag
    held,                      \* the registry locks health_main holds
    walk                       \* health_reload_host's walk of the alarm log

vars == <<now, next_run, pc, runnable, alarms, silencers, log, count, next_log_id,
          health_last_processed_id, rpc, reloads, executed, fn, health_delay_up_to,
          monotonic, last_realtime, last_monotonic, min_run_every, netdata_exit,
          held, walk>>

\* the clocks of the suspension detector
detector == <<monotonic, last_realtime, last_monotonic>>

hostVars == <<alarms, log, count, next_log_id, health_last_processed_id, executed>>

NoFn == [kind |-> "none"]

\* lines 118-123, the loop variable t of health_reload_host: t = the unique id
\* of the entry t points to (0: NULL), read = the entry's flags are loaded and
\* not yet stored back, flags = the flags loaded, from = the head the walk
\* began at, freed = the walk touched an entry that eviction had freed
NoWalk == [t |-> 0, read |-> FALSE, flags |-> {}, from |-> 0, freed |-> FALSE]

\* host->health_log.count is an unsigned int: kept here as the representative of
\* its value modulo 2^32 in -2^31 .. 2^31-1, a negative one standing for a value
\* above 2^31 (count-- below zero wraps)
UnsignedLeq(c, m) == c >= 0 /\ c <= m

\* lines 863-864 with the comparison of line 863 turned around
MinTurned(a, b) == IF a > b THEN a ELSE b

Min(a, b) == IF a < b THEN a ELSE b

\* the host's registry lock (rrdhost_rdlock / rrdhost_wrlock): health_main holds
\* it for reading from line 714 to line 896; health_reload_host takes it for
\* writing and releases it within one step
MainHoldsHost == pc = "repeat"

\* line 154: health_reload takes the global registry lock with rrd_rdlock
ReloadRrdMode == "read"

\* the global registry lock (rrd_rdlock, lines 581-910 in health_main) can be
\* taken in this mode by another thread: readers share it
RrdGrants(mode) == mode = "read" \/ "rrd" \notin held

\* lines 549-560: health_main has read its configuration (min_run_every \in
\* periods) and is in its first tick
InitOf(periods, registries, stores) ==
    /\ now = 1
    /\ min_run_every \in periods
    /\ next_run = 1 + min_run_every
    /\ pc = "lookup"
    /\ runnable = 0
    /\ alarms \in registries
    /\ silencers \in stores
    /\ log = <<>>
    /\ count = 0
    /\ next_log_id = 1
    /\ health_last_processed_id = 0
    /\ rpc = "idle"
    /\ reloads = 0
    /\ executed = <<>>
    /\ fn = NoFn
    /\ health_delay_up_to = 0
    /\ monotonic = 1
    /\ last_realtime = 1
    /\ last_monotonic = 1
    /\ netdata_exit = FALSE
    /\ held = {"rrd"}
    /\ walk = NoWalk

InitWith(periods) == InitOf(periods, Registries, SilencerStores)

Init == InitWith({MinRunEvery})

\* -------------------------------------------------------- health_main: lookup

ChartStates == {"ready"}

\* lines 376-438; chart = "notready" stands for a chart that is obsolete, not
\* enabled, not collected twice yet or without the data wanted
rrdcalc_isrunnable(rc, t, chart) ==
    /\ ~(rc.next_update > t)
    /\ rc.cfg.update_every # 0
    /\ chart = "ready"

\* lines 382-387: what rrdcalc_isrunnable leaves in *next_run
IsRunnableNextRun(rc, t, nr) ==
    IF rc.next_update > t /\ nr > rc.next_update THEN rc.next_update ELSE nr

\* lines 607-709: the first loop over host->alarms
RECURSIVE LookupAlarms(_, _, _, _, _)
LookupAlarms(ids, rcs, nr, n, chart) ==
    IF ids = <<>> THEN [alarms |-> rcs, next_run |-> nr, runnable |-> n]
    ELSE
      LET id == Head(ids)
          rc == update_disabled_silenced(rcs[id], silencers)
      IN  IF "DISABLED" \in rc.rrdcalc_flags
          THEN LookupAlarms(Tail(ids), [rcs EXCEPT ![id] = rc], nr, n, chart)
          ELSE IF ~rrdcalc_isrunnable(rc, now, chart[id])
          THEN LookupAlarms(Tail(ids),
                            [rcs EXCEPT ![id] = [rc EXCEPT !.rrdcalc_flags = @ \ {"RUNNABLE"}]],
                            IsRunnableNextRun(rc, now, nr), n, chart)
          ELSE LookupAlarms(Tail(ids),
                            [rcs EXCEPT ![id] = [rc EXCEPT !.rrdcalc_flags = @ \cup {"RUNNABLE"}]],
                            nr, n + 1, chart)

\* lines 604-713
LookupPhase ==
    /\ pc = "lookup"
    /\ \E chart \in [DOMAIN alarms -> ChartStates] :
         LET r == LookupAlarms(SetToSeq(DOMAIN alarms), alarms, next_run, runnable, chart)
         IN  /\ alarms' = r.alarms
             /\ next_run' = r.next_run
             /\ runnable' = r.runnable
             /\ pc' = IF r.runnable > 0 THEN "decide" ELSE "scan"
    /\ UNCHANGED <<now, silencers, log, count, next_log_id, health_last_processed_id,
                   rpc, reloads, executed, fn,
                   health_delay_up_to, detector, min_run_every, netdata_exit,
                   held, walk>>

\* -------------------------------------------------------- health_main: decide

\* the outcomes of an expression followed in the main loop
MainEvals == { EvalFailed, Eval(TRUE, Finite(0)), Eval(TRUE, Finite(1)) }

\* lines 723-805: the status the alarm's expressions give
EvaluateStatus(cfg, ev) ==
    ComposeStatus(ExpressionStatus(cfg.has_warning, ev.warning),
                  ExpressionStatus(cfg.has_critical, ev.critical))

\* lines 842-854 with the entry linked a second time
LogTransitionTwice(h, id, rc, status, delay) ==
    LET ae == health_create_alarm_entry(h.next_log_id, id, now, now - rc.last_status_change,
                                        rc.status, status, delay, EntryFlags(rc))
    IN  [h EXCEPT !.log = health_alarm_log(health_alarm_log(h.log, ae), ae),
                  !.count = @ + 2,
                  !.next_log_id = @ + 1]

\* lines 842-854 with rc->old_status, the status before the previous change,
\* given to the entry as its old status
LogTransitionStale(h, id, rc, status, delay) ==
    LET ae == health_create_alarm_entry(h.next_log_id, id, now, now - rc.last_status_change,
                                        rc.old_status, status, delay, EntryFlags(rc))
    IN  [h EXCEPT !.log = health_alarm_log(h.log, ae),
                  !.count = @ + 1,
                  !.next_log_id = @ + 1]

\* lines 842-854: the entry of a transition is created and linked
LogTransition(h, id, rc, status, delay) ==
    LET ae == health_create_alarm_entry(h.next_log_id, id, now, now - rc.last_status_change,
                                        rc.status, status, delay, EntryFlags(rc))
    IN  [h EXCEPT !.log = health_alarm_log(h.log, ae),
                  !.count = @ + 1,
                  !.next_log_id = @ + 1]

\* lines 717-864: one alarm of the second loop; ev = what its expressions give
DecideAlarm(h, id, ev) ==
    LET rc == h.alarms[id]
        status == EvaluateStatus(rc.cfg, ev)
        rcd == ApplyHysteresis(rc, status, now)
        h1 == IF status # rc.status /\ ~rrdcalc_isrepeating(rc)
              THEN LogTransition(h, id, rc, status, rcd.delay_last)
              ELSE h
        rc1 == StatusStep(rc, status, now)
        rc2 == [rc1 EXCEPT !.last_updated = now,
                           !.next_update = now + rc.cfg.update_every]
    IN  IF "RUNNABLE" \notin rc.rrdcalc_flags \/ "DISABLED" \in rc.rrdcalc_flags
        THEN h
        ELSE [h1 EXCEPT !.alarms[id] = rc2,
                        !.next_run = Min(h.next_run, rc2.next_update)]

RECURSIVE DecideAlarms(_, _, _)
DecideAlarms(h, ids, evs) ==
    IF ids = <<>> THEN h
    ELSE DecideAlarms(DecideAlarm(h, Head(ids), evs[Head(ids)]), Tail(ids), evs)

Host == [alarms |-> alarms, log |-> log, count |-> count, next_log_id |-> next_log_id,
         next_run |-> next_run, executed |-> executed]

\* lines 713-865: the second loop, under the host's read lock
DecidePhase ==
    /\ pc = "decide"
    /\ \E evs \in [DOMAIN alarms -> [warning : MainEvals, critical : MainEvals]] :
         LET h == DecideAlarms(Host, SetToSeq(DOMAIN alarms), evs)
         IN  /\ h.next_log_id <= MaxLogId + 1
             /\ alarms' = h.alarms
             /\ log' = h.log
             /\ count' = h.count
             /\ next_log_id' = h.next_log_id
             /\ next_run' = h.next_run
    /\ pc' = "repeat"
    /\ ~netdata_exit
    /\ held' = held \cup {"host"}
    /\ UNCHANGED <<now, runnable, silencers, health_last_processed_id, rpc, reloads,
                   executed, fn,
                   health_delay_up_to, detector, min_run_every, netdata_exit,
                   walk>>

\* -------------------------------------------------- health_main: repeating

\* lines 870-876
RepeatEvery(rc) ==
    IF ~rrdcalc_isrepeating(rc) THEN 0
    ELSE IF rc.status = RRDCALC_STATUS_WARNING THEN rc.cfg.warn_repeat_every
    ELSE IF rc.status = RRDCALC_STATUS_CRITICAL THEN rc.cfg.crit_repeat_every
    ELSE 0

\* lines 877-893: the entry of a repeating alarm is created, dispatched and freed
RepeatAlarm(h, id, x) ==
    LET rc == h.alarms[id]
        ae == health_create_alarm_entry(h.next_log_id, id, now, now - rc.last_status_change,
                                        rc.old_status, rc.status, rc.delay_last,
                                        EntryFlags(rc))
        done == health_alarm_execute(ae, <<>>, x)
    IN  IF RepeatEvery(rc) > 0 /\ rc.last_repeat + RepeatEvery(rc) <= now
        THEN [h EXCEPT !.alarms[id].last_repeat = now,
                       !.next_log_id = @ + 1,
                       !.executed = Append(@, Execution(ae, done, <<>>, FALSE))]
        ELSE h

RECURSIVE RepeatAlarms(_, _, _)
RepeatAlarms(h, ids, xs) ==
    IF ids = <<>> THEN h
    ELSE RepeatAlarms(RepeatAlarm(h, Head(ids), xs[Head(ids)]), Tail(ids), xs)

\* lines 867-897: the third loop, still under the host's read lock
RepeatPhase ==
    /\ pc = "repeat"
    /\ \E xs \in [DOMAIN alarms -> ExecResults] :
         LET h == RepeatAlarms(Host, SetToSeq(DOMAIN alarms), xs)
         IN  /\ h.next_log_id <= MaxLogId + 1
             /\ alarms' = h.alarms
             /\ next_log_id' = h.next_log_id
             /\ executed' = h.executed
    /\ pc' = "scan"
    /\ held' = held \ {"host"}
    /\ UNCHANGED <<now, next_run, runnable, silencers, log, count,
                   health_last_processed_id, rpc, reloads, fn,
                   health_delay_up_to, detector, min_run_every, netdata_exit,
                   walk>>

\* ------------------------------------------------- health_alarm_log_process

\* alarm_entry_isrepeating: the entry's alarm is, now, a repeating alarm
alarm_entry_isrepeating(rcs, ae) ==
    ae.alarm_id \in DOMAIN rcs /\ rrdcalc_isrepeating(rcs[ae.alarm_id])

\* the test of lines 324-328 without the processed flag
IsPendingIgnoringProcessed(rcs, ae) ==
    /\ ~alarm_entry_isrepeating(rcs, ae)
    /\ "UPDATED" \notin ae.flags

\* lines 324-328: the entry is waiting for the dispatcher
IsPending(rcs, ae) ==
    /\ ~alarm_entry_isrepeating(rcs, ae)
    /\ "PROCESSED" \notin ae.flags
    /\ "UPDATED" \notin ae.flags

\* line 323: the entries the loop visits, a prefix of the chain
RECURSIVE ScanLimit(_, _, _)
ScanLimit(chain, i, cursor) ==
    IF i > Len(chain) \/ ~(chain[i].unique_id >= cursor) THEN i - 1
    ELSE ScanLimit(chain, i + 1, cursor)

\* line 332: the entries of the visited prefix given to the dispatcher
DueEntries(chain, rcs, cursor, t) ==
    { i \in 1..ScanLimit(chain, 1, cursor) :
        IsPending(rcs, chain[i]) /\ t >= chain[i].delay_up_to_timestamp }

\* line 317 taking the unique id of the head only when the head is not
\* dispatched yet
FirstWaitingUndispatched(chain) ==
    IF chain # <<>> /\ "PROCESSED" \notin chain[1].flags THEN chain[1].unique_id ELSE 0

\* line 317: the cursor to be, when nothing is waiting
FirstWaiting(chain) == IF chain # <<>> THEN chain[1].unique_id ELSE 0

\* lines 317-339 without the test of line 332: a waiting entry is dispatched
\* whatever its delay
RECURSIVE ScanFromUndelayed(_, _, _, _, _, _)
ScanFromUndelayed(s, i, rcs, cursor, t, xs) ==
    IF i > Len(s.log) \/ ~(s.log[i].unique_id >= cursor) THEN s
    ELSE
      LET ae == s.log[i]
          fw == IF ae.unique_id < s.first_waiting THEN ae.unique_id ELSE s.first_waiting
          x == IF i \in DOMAIN xs THEN xs[i] ELSE [fp |-> TRUE, code |-> 0]
          done == health_alarm_execute(ae, SubSeq(s.log, i + 1, Len(s.log)), x)
      IN  IF ~IsPending(rcs, ae) THEN ScanFromUndelayed(s, i + 1, rcs, cursor, t, xs)
          ELSE ScanFromUndelayed([log |-> [s.log EXCEPT ![i] = done],
                                  first_waiting |-> fw,
                                  executed |-> Append(s.executed, Execution(ae, done, SubSeq(s.log, i + 1, Len(s.log)), TRUE))],
                                 i + 1, rcs, cursor, t, xs)

\* lines 317-339: the loop from entry i on; s = [log, first_waiting, executed]
RECURSIVE ScanFrom(_, _, _, _, _, _)
ScanFrom(s, i, rcs, cursor, t, xs) ==
    IF i > Len(s.log) \/ ~(s.log[i].unique_id >= cursor) THEN s
    ELSE
      LET ae == s.log[i]
          fw == IF ae.unique_id < s.first_waiting THEN ae.unique_id ELSE s.first_waiting
          done == health_alarm_execute(ae, SubSeq(s.log, i + 1, Len(s.log)), xs[i])
      IN  IF ~IsPending(rcs, ae) THEN ScanFrom(s, i + 1, rcs, cursor, t, xs)
          ELSE IF t >= ae.delay_up_to_timestamp
          THEN ScanFrom([log |-> [s.log EXCEPT ![i] = done],
                         first_waiting |-> fw,
                         executed |-> Append(s.executed, Execution(ae, done, SubSeq(s.log, i + 1, Len(s.log)), TRUE))],
                        i + 1, rcs, cursor, t, xs)
          ELSE ScanFrom([s EXCEPT !.first_waiting = fw], i + 1, rcs, cursor, t, xs)

\* lines 316-344: the dispatch scan, under the read lock of the alarm log
ProcessScan ==
    /\ pc = "scan"
    /\ \E xs \in [DueEntries(log, alarms, health_last_processed_id, now) -> ExecResults] :
         LET s0 == [log |-> log,
                    first_waiting |-> FirstWaiting(log),
                    executed |-> executed]
             s == ScanFrom(s0, 1, alarms, health_last_processed_id, now, xs)
         IN  /\ log' = s.log
             /\ executed' = s.executed
             /\ health_last_processed_id' = s.first_waiting
    /\ pc' = IF UnsignedLeq(count, HealthLogMax) THEN "sleep" ELSE "evict"
    /\ ~netdata_exit
    /\ held' = IF pc' = "sleep" THEN held \ {"rrd"} ELSE held
    /\ UNCHANGED <<now, next_run, runnable, alarms, silencers, count, next_log_id,
                   rpc, reloads, fn,
                   health_delay_up_to, detector, min_run_every, netdata_exit,
                   walk>>

\* lines 349-356 with the walk of line 351 going one entry further
EvictKeepOneMore(chain, max) ==
    LET n == (max * 2) \div 3 + 1
    IN  IF n > 0 /\ Len(chain) > n THEN n ELSE Len(chain)

\* lines 349-356: how many entries stay linked
EvictKeep(chain, max) ==
    LET n == (max * 2) \div 3
    IN  IF n > 0 /\ Len(chain) > n THEN n ELSE Len(chain)

\* lines 358-371: what the loop takes from count for `n` entries cut off. Each
\* entry is released, then read by alarm_entry_isrepeating: the read of released
\* memory gives any alarm id, so the entry counts once more or not
EvictDecrements(n) == n .. (2 * n)

\* lines 346-373: eviction, under the write lock of the alarm log. Releasing an
\* entry twice is undefined: the allocator aborts the process, or goes on
ProcessEvict ==
    /\ pc = "evict"
    /\ LET keep == EvictKeep(log, HealthLogMax)
           n == Len(log) - keep
       IN  /\ log' = SubSeq(log, 1, keep)
           /\ \E d \in EvictDecrements(n) : count' = count - d
           /\ pc' \in (IF n > 0 THEN {"sleep", "aborted"} ELSE {"sleep"})
    /\ held' = held \ {"rrd"}
    /\ UNCHANGED <<now, next_run, runnable, alarms, silencers, next_log_id,
                   health_last_processed_id, rpc, reloads, executed, fn,
                   health_delay_up_to, detector, min_run_every, netdata_exit,
                   walk>>

\* ------------------------------------------------------ health_main: the loop

Oversleeps == {0, MaxOversleep}

\* lines 911-922: sleep to next_run; the wake-up may be late. The clock is
\* followed up to `horizon`. When the system was suspended (suspended \in
\* suspensions), the monotonic clock did not advance for the time of the lateness
SleepUntil(horizon, suspensions) ==
    /\ pc = "sleep"
    /\ ~netdata_exit
    /\ \E late \in Oversleeps : \E suspended \in suspensions :
         /\ now' = (IF now < next_run THEN next_run ELSE now) + late
         /\ now' <= horizon
         /\ monotonic' = monotonic + (now' - now) - (IF suspended THEN late ELSE 0)
    /\ pc' = "tick"
    /\ UNCHANGED <<next_run, runnable, alarms, silencers, log, count, next_log_id,
                   health_last_processed_id, rpc, reloads, executed, fn,
                   health_delay_up_to, last_realtime, last_monotonic, min_run_every,
                   netdata_exit, held, walk>>

\* the system is never suspended
Sleep == SleepUntil(MaxReloadTime, {FALSE})

SleepLong == SleepUntil(MaxTime, {FALSE})

\* the system may be suspended while health_main sleeps
SleepSuspended == SleepUntil(MaxTime, BOOLEAN)

\* lines 440-455 with the two clocks taken one for the other at line 447
check_if_resumed_swapped(lr, lm, realtime, mono) ==
    lr # 0 /\ lm # 0 /\ mono - lm > 2 * (realtime - lr)

\* lines 440-455: lr, lm = the samples of the last call (0: none yet)
check_if_resumed_from_suspention(lr, lm, realtime, mono) ==
    lr # 0 /\ lm # 0 /\ realtime - lr > 2 * (mono - lm)

\* lines 556-602: a tick starts; the host is skipped while it is postponed
TickStart ==
    /\ pc = "tick"
    /\ ~netdata_exit
    /\ runnable' = 0
    /\ next_run' = now + min_run_every
    /\ last_realtime' = now
    /\ last_monotonic' = monotonic
    /\ LET apply_hibernation_delay ==
               check_if_resumed_from_suspention(last_realtime, last_monotonic, now, monotonic)
           delay_up_to == IF apply_hibernation_delay THEN now + HibernationDelay
                          ELSE health_delay_up_to
           postponed == delay_up_to # 0 /\ now < delay_up_to
       IN  /\ health_delay_up_to' = IF postponed THEN delay_up_to ELSE 0
           /\ pc' = IF postponed THEN "sleep" ELSE "lookup"
           /\ held' = IF postponed THEN held ELSE held \cup {"rrd"}
    /\ UNCHANGED <<now, monotonic, alarms, silencers, log, count, next_log_id,
                   health_last_processed_id, rpc, reloads, executed, fn, min_run_every,
                   netdata_exit, walk>>

\* ------------------------------------------------------- health_reload_host

\* rrdcalc_unlink_and_free: the alarm leaves the registry and a tombstone is logged
Tombstone(id, rc, unique_id, t) ==
    health_create_alarm_entry(unique_id, id, t, t - rc.last_status_change,
                              rc.status, RRDCALC_STATUS_REMOVED, 0, {})

\* lines 113-114: the alarms leave the registry, each leaving a tombstone
RECURSIVE UnlinkAlarms(_, _)
UnlinkAlarms(h, ids) ==
    IF ids = <<>> THEN h
    ELSE LET id == Head(ids)
         IN  UnlinkAlarms(
               [h EXCEPT !.log = health_alarm_log(@, Tombstone(id, h.alarms[id], h.next_log_id, now)),
                         !.count = @ + 1,
                         !.next_log_id = @ + 1,
                         !.alarms = [i \in DOMAIN h.alarms \ {id} |-> h.alarms[i]]],
               Tail(ids))

\* lines 120-123: every entry that is not a tombstone gets the updated flag
InvalidateLog(chain) ==
    [i \in 1..Len(chain) |->
        IF chain[i].new_status # RRDCALC_STATUS_REMOVED
        THEN [chain[i] EXCEPT !.flags = @ \cup {"UPDATED"}]
        ELSE chain[i]]

\* lines 100-123: the running alarms are freed, under the host's write lock;
\* then the log is walked, without any lock
ReloadTeardownWithin(most) ==
    /\ rpc = "idle"
    /\ pc # "aborted"
    /\ reloads < most
    /\ RrdGrants(ReloadRrdMode)
    /\ ~MainHoldsHost
    /\ LET h == UnlinkAlarms(Host, SetToSeq(DOMAIN alarms))
       IN  /\ h.next_log_id <= MaxLogId + 1
           /\ alarms' = h.alarms
           /\ log' = InvalidateLog(h.log)
           /\ count' = h.count
           /\ next_log_id' = h.next_log_id
    /\ rpc' = "load"
    /\ UNCHANGED <<now, next_run, pc, runnable, silencers, health_last_processed_id,
                   reloads, executed, fn,
                   health_delay_up_to, detector, min_run_every, netdata_exit,
                   held, walk>>

\* lines 134-144: the new alarms are loaded and linked, under the write lock
ReloadLoad ==
    /\ rpc = "load"
    /\ pc # "aborted"
    /\ ~MainHoldsHost
    /\ alarms' \in Registries
    /\ rpc' = "idle"
    /\ reloads' = reloads + 1
    /\ UNCHANGED <<now, next_run, pc, runnable, silencers, log, count, next_log_id,
                   health_last_processed_id, executed, fn,
                   health_delay_up_to, detector, min_run_every, netdata_exit,
                   held, walk>>

ReloadTeardown == ReloadTeardownWithin(MaxReloads)

\* the place in the chain of the entry with this unique id (0: not linked)
IndexOf(chain, uid) ==
    IF \E i \in 1..Len(chain) : chain[i].unique_id = uid
    THEN CHOOSE i \in 1..Len(chain) : chain[i].unique_id = uid
    ELSE 0

\* ae->next of the entry at place i, as a unique id
NextOf(chain, i) == IF i < Len(chain) THEN chain[i + 1].unique_id ELSE 0

\* lines 100-119, when the walk of the log is followed entry by entry: the
\* running alarms are freed under the host's write lock, and t is set to the
\* head of the log
ReloadUnlink ==
    /\ rpc = "idle"
    /\ pc # "aborted"
    /\ reloads < MaxReloads
    /\ RrdGrants(ReloadRrdMode)
    /\ ~MainHoldsHost
    /\ LET h == UnlinkAlarms(Host, SetToSeq(DOMAIN alarms))
       IN  /\ h.next_log_id <= MaxLogId + 1
           /\ alarms' = h.alarms
           /\ log' = h.log
           /\ count' = h.count
           /\ next_log_id' = h.next_log_id
           /\ walk' = [NoWalk EXCEPT !.t = FirstWaiting(h.log), !.from = FirstWaiting(h.log)]
           /\ rpc' = IF h.log = <<>> THEN "load" ELSE "walk"
    /\ UNCHANGED <<now, next_run, pc, runnable, silencers, health_last_processed_id,
                   reloads, executed, fn,
                   health_delay_up_to, detector, min_run_every, netdata_exit, held>>

\* the walk touches an entry that eviction has freed: the process is aborted,
\* or the walk goes on over what the memory holds and comes to an end
WalkFreed ==
    /\ walk' = [walk EXCEPT !.t = 0, !.read = FALSE, !.freed = TRUE]
    /\ \/ pc' = "aborted" /\ rpc' = rpc
       \/ pc' = pc /\ rpc' = "load"
    /\ UNCHANGED log

\* lines 120-122: t->new_status and t->flags are loaded, with no lock held
ReloadWalkRead ==
    /\ rpc = "walk"
    /\ pc # "aborted"
    /\ ~walk.read
    /\ LET i == IndexOf(log, walk.t)
       IN  IF i = 0 THEN WalkFreed
           ELSE /\ walk' = [walk EXCEPT !.read = TRUE, !.flags = log[i].flags]
                /\ UNCHANGED <<pc, rpc, log>>
    /\ UNCHANGED <<now, next_run, runnable, alarms, silencers, count, next_log_id,
                   health_last_processed_id, reloads, executed, fn,
                   health_delay_up_to, detector, min_run_every, netdata_exit, held>>

\* lines 119-122: the flags loaded are stored back with the updated flag, and t
\* moves to t->next; the walk ends at NULL
ReloadWalkWrite ==
    /\ rpc = "walk"
    /\ pc # "aborted"
    /\ walk.read
    /\ LET i == IndexOf(log, walk.t)
       IN  IF i = 0 THEN WalkFreed
           ELSE /\ log' = IF log[i].new_status # RRDCALC_STATUS_REMOVED
                           THEN [log EXCEPT ![i].flags = walk.flags \cup {"UPDATED"}]
                           ELSE log
                /\ walk' = [walk EXCEPT !.t = NextOf(log, i), !.read = FALSE, !.flags = {}]
                /\ rpc' = IF NextOf(log, i) = 0 THEN "load" ELSE "walk"
                /\ pc' = pc
    /\ UNCHANGED <<now, next_run, runnable, alarms, silencers, count, next_log_id,
                   health_last_processed_id, reloads, executed, fn,
                   health_delay_up_to, detector, min_run_every, netdata_exit, held>>

\* -------------------------------------------------------------- specification

\* health_main with a concurrent health_reload
Next ==
    \/ TickStart
    \/ LookupPhase
    \/ DecidePhase
    \/ RepeatPhase
    \/ ProcessScan
    \/ ProcessEvict
    \/ Sleep
    \/ ReloadTeardown
    \/ ReloadLoad

Spec == Init /\ [][Next]_vars

\* health_main with a concurrent health_reload whose walk of the alarm log is
\* followed entry by entry
NextRace ==
    \/ TickStart
    \/ LookupPhase
    \/ DecidePhase
    \/ RepeatPhase
    \/ ProcessScan
    \/ ProcessEvict
    \/ Sleep
    \/ ReloadUnlink
    \/ ReloadWalkRead
    \/ ReloadWalkWrite
    \/ ReloadLoad

SpecRace == Init /\ [][NextRace]_vars

\* health_main alone, followed longer
NextTicks ==
    \/ TickStart
    \/ LookupPhase
    \/ DecidePhase
    \/ RepeatPhase
    \/ ProcessScan
    \/ ProcessEvict
    \/ SleepLong

SpecTicks == Init /\ [][NextTicks]_vars

\* health_main alone, on a system that may be suspended
NextSuspend ==
    \/ TickStart
    \/ LookupPhase
    \/ DecidePhase
    \/ RepeatPhase
    \/ ProcessScan
    \/ ProcessEvict
    \/ SleepSuspended

SpecSuspend == Init /\ [][NextSuspend]_vars

ReloadTeardownAgain == ReloadTeardownWithin(MaxManyReloads)

SleepBrief == SleepUntil(MaxManyReloadTime, {FALSE})

NextReloads ==
    \/ TickStart
    \/ LookupPhase
    \/ DecidePhase
    \/ RepeatPhase
    \/ ProcessScan
    \/ ProcessEvict
    \/ SleepBrief
    \/ ReloadTeardownAgain
    \/ ReloadLoad

\* health_main and health_reload called several times
SpecReloads == Init /\ [][NextReloads]_vars

\* the registries that define both alarms, a1 without delays nor options
BothAlarms ==
    { [i \in AlarmIds |-> NewAlarm(c[i])] :
        c \in { f \in [AlarmIds -> UNION {Configs(i) : i \in AlarmIds}] :
                  /\ \A i \in AlarmIds : f[i] \in Configs(i)
                  /\ f[1].delay_up_duration = 0
                  /\ f[1].options = {} } }

\* the stores the command sets: empty, or the alarm a2 disabled
CommandStores ==
    { [all_alarms |-> FALSE, stype |-> "STYPE_NONE", silencers |-> <<>>],
      [all_alarms |-> FALSE, stype |-> "STYPE_DISABLE_ALARMS",
       silencers |-> << Silencer(Pattern({"a2"}), Absent, Absent, Absent, Absent) >>] }

\* a health command replaces the silencer store
SilencerCommand ==
    /\ pc # "aborted"
    /\ silencers' \in CommandStores \ {silencers}
    /\ UNCHANGED <<now, next_run, pc, runnable, alarms, log, count,
                   next_log_id, health_last_processed_id, rpc, reloads, executed, fn,
                   health_delay_up_to, detector, min_run_every, netdata_exit, held,
                   walk>>

SleepCommand == SleepUntil(MaxCommandTime, {FALSE})

InitCommand == InitOf({MinRunEvery}, BothAlarms, CommandStores)

NextCommand ==
    \/ TickStart
    \/ LookupPhase
    \/ DecidePhase
    \/ RepeatPhase
    \/ ProcessScan
    \/ ProcessEvict
    \/ SleepCommand
    \/ SilencerCommand

\* health_main with two alarms, the silencer store changing meanwhile
SpecCommand == InitCommand /\ [][NextCommand]_vars

\* the exit flag is set, by the thread that shuts the process down
SetExit ==
    /\ ~netdata_exit
    /\ pc \notin {"exited", "aborted"}
    /\ netdata_exit' = TRUE
    /\ UNCHANGED <<now, next_run, pc, runnable, alarms, silencers, log, count,
                   next_log_id, health_last_processed_id, rpc, reloads, executed, fn,
                   health_delay_up_to, detector, min_run_every, held, walk>>

\* the tests of netdata_exit: line 556 before a tick, line 713 before the decide
\* loop and line 899 after it, line 899 before health_alarm_log_process, lines
\* 906 and 914 before the sleep. Each leaves the loops, through the rrd_unlock
\* of line 910 when the registry lock is held
Shutdown ==
    /\ netdata_exit
    /\ pc \in {"tick", "decide", "scan", "sleep"}
    /\ pc' = "exited"
    /\ held' = held \ {"rrd"}
    /\ UNCHANGED <<now, next_run, runnable, alarms, silencers, log, count,
                   next_log_id, health_last_processed_id, rpc, reloads, executed, fn,
                   health_delay_up_to, detector, min_run_every, netdata_exit, walk>>

SleepShort == SleepUntil(MaxExitTime, {FALSE})

\* the steps of health_main when it may be told to exit
NextMainExit ==
    \/ TickStart
    \/ LookupPhase
    \/ DecidePhase
    \/ RepeatPhase
    \/ ProcessScan
    \/ ProcessEvict
    \/ SleepShort
    \/ Shutdown

NextExit == NextMainExit \/ SetExit

\* health_main alone, told to exit at any time
SpecExit == Init /\ [][NextExit]_vars

\* the thread of health_main is scheduled as long as it can take a step
SpecExitFair == SpecExit /\ WF_vars(NextMainExit)

\* health_main alone, with min_run_every configured at or above its least value
InitPeriod == InitWith(MinRunEvery..(MinRunEvery + MaxRunEveryExtra))

SpecPeriod == InitPeriod /\ [][NextTicks]_vars

\* ------------------------------------------ the status of an alarm, alone

\* what an expression may give: a failed evaluation, NaN, an infinite or a
\* finite number
ComposeEvals == { EvalFailed, Eval(TRUE, NAN), Eval(TRUE, INF), Eval(TRUE, Finite(0)),
                  Eval(TRUE, Finite(1)), Eval(TRUE, Finite(-1)) }

\* the state of the host when a function of health_main is followed alone
Idle ==
    /\ now = 1
    /\ min_run_every = MinRunEvery
    /\ next_run = 1 + min_run_every
    /\ pc = "lookup"
    /\ runnable = 0
    /\ alarms = NoAlarms
    /\ silencers \in { st \in SilencerStores : st.stype = "STYPE_NONE" }
    /\ log = <<>>
    /\ count = 0
    /\ next_log_id = 1
    /\ health_last_processed_id = 0
    /\ rpc = "idle"
    /\ reloads = 0
    /\ executed = <<>>
    /\ health_delay_up_to = 0
    /\ monotonic = 1
    /\ last_realtime = 1
    /\ last_monotonic = 1
    /\ netdata_exit = FALSE
    /\ held = {"rrd"}
    /\ walk = NoWalk

\* an alarm with or without each expression, and what its expressions give
InitCompose ==
    /\ Idle
    /\ fn \in [kind : {"compose"},
               has_warning : BOOLEAN, has_critical : BOOLEAN,
               warning : ComposeEvals, critical : ComposeEvals,
               done : {FALSE},
               status : {RRDCALC_STATUS_UNINITIALIZED}]

\* lines 723-805 for the alarm in fn
Compose ==
    /\ fn.kind = "compose"
    /\ ~fn.done
    /\ fn' = [fn EXCEPT !.done = TRUE,
                        !.status = EvaluateStatus(fn, [warning |-> fn.warning,
                                                       critical |-> fn.critical])]
    /\ UNCHANGED <<now, next_run, pc, runnable, alarms, silencers, log, count,
                   next_log_id, health_last_processed_id, rpc, reloads, executed,
                   health_delay_up_to, detector, min_run_every, netdata_exit,
                   held, walk>>

NextCompose == Compose

SpecCompose == InitCompose /\ [][NextCompose]_vars

\* ------------------------------------------- the silencer flags, alone

\* the silencers followed: one that matches nothing, one for this host, one
\* for two families, one without patterns, one whose alarm pattern matches
\* alarm a1 and whose context pattern does not
SilencerChoices ==
    { Silencer(Pattern({"zz"}), Absent, Absent, Absent, Absent),
      Silencer(Absent, Absent, Absent, Pattern({HostName}), Absent),
      Silencer(Absent, Absent, Absent, Absent, Pattern({"f1"})),
      Silencer(Absent, Absent, Absent, Absent, Absent),
      Silencer(Pattern({"a1"}), Absent, Pattern({"zz"}), Absent, Absent) }

\* any store of at most MaxSilencers silencers
AnySilencerStores ==
    [all_alarms : BOOLEAN,
     stype : {"STYPE_NONE", "STYPE_SILENCE_NOTIFICATIONS", "STYPE_DISABLE_ALARMS"},
     silencers : UNION { [1..n -> SilencerChoices] : n \in 0..MaxSilencers }]

\* an alarm with any flags, and any store
InitSilence ==
    /\ Idle
    /\ fn \in [kind : {"silence"},
               rc : { [NewAlarm(c) EXCEPT !.rrdcalc_flags = f] :
                        c \in { x \in Configs(1) \cup Configs(2) : x.delay_up_duration = 0 /\ x.options = {} },
                        f \in SUBSET {"DISABLED", "SILENCED", "RUNNABLE"} },
               store : AnySilencerStores,
               done : {FALSE},
               ret : {0}]

\* lines 508-535 for the alarm and the store in fn; ret is what the function
\* returns (lines 531-534)
UpdateSilence ==
    /\ fn.kind = "silence"
    /\ ~fn.done
    /\ LET rc == update_disabled_silenced(fn.rc, fn.store)
       IN  fn' = [fn EXCEPT !.done = TRUE,
                            !.rc = rc,
                            !.ret = IF "DISABLED" \in rc.rrdcalc_flags THEN 1 ELSE 0]
    /\ UNCHANGED <<now, next_run, pc, runnable, alarms, silencers, log, count,
                   next_log_id, health_last_processed_id, rpc, reloads, executed,
                   health_delay_up_to, detector, min_run_every, netdata_exit,
                   held, walk>>

NextSilence == UpdateSilence

SpecSilence == InitSilence /\ [][NextSilence]_vars

\* ------------------------------------------------------ the hysteresis, alone

HysteresisMultipliers == { Ratio(1, 2), Ratio(1, 1), Ratio(2, 1) }

\* the configurations of the delays of an alarm
HysteresisConfigs ==
    { [c EXCEPT !.delay_up_duration = up, !.delay_down_duration = down,
                !.delay_multiplier = m, !.delay_max_duration = max] :
        c \in { x \in Configs(1) : x.delay_up_duration = 0 },
        up \in 0..MaxDelay, down \in 0..MaxDelay, max \in 0..MaxDelay,
        m \in HysteresisMultipliers }

HysteresisStatuses == { RRDCALC_STATUS_CLEAR, RRDCALC_STATUS_WARNING }

\* an alarm as loaded, with any configuration of its delays
InitHysteresis ==
    /\ Idle
    /\ fn \in [kind : {"hysteresis"},
               rc : { NewAlarm(c) : c \in HysteresisConfigs },
               t : {0},
               changes : {0}]

\* lines 810-857 for the alarm in fn: its status changes at a later time
StatusChange ==
    /\ fn.kind = "hysteresis"
    /\ \E status \in HysteresisStatuses \ {fn.rc.status} :
       \E t \in (fn.t + 1)..MaxHysteresisTime :
         fn' = [fn EXCEPT !.t = t,
                          !.changes = @ + 1,
                          !.rc = [ApplyHysteresis(fn.rc, status, t) EXCEPT
                                    !.last_status_change = t,
                                    !.old_status = fn.rc.status,
                                    !.status = status]]
    /\ UNCHANGED <<now, next_run, pc, runnable, alarms, silencers, log, count,
                   next_log_id, health_last_processed_id, rpc, reloads, executed,
                   health_delay_up_to, detector, min_run_every, netdata_exit,
                   held, walk>>

\* lines 810-858 for the alarm in fn: it is evaluated at a later time and keeps
\* its status
StatusStays ==
    /\ fn.kind = "hysteresis"
    /\ \E t \in (fn.t + 1)..MaxHysteresisTime :
         fn' = [fn EXCEPT !.t = t,
                          !.rc = StatusStep(fn.rc, fn.rc.status, t)]
    /\ UNCHANGED <<now, next_run, pc, runnable, alarms, silencers, log, count,
                   next_log_id, health_last_processed_id, rpc, reloads, executed,
                   health_delay_up_to, detector, min_run_every, netdata_exit,
                   held, walk>>

NextHysteresis == StatusChange \/ StatusStays

SpecHysteresis == InitHysteresis /\ [][NextHysteresis]_vars

\* ------------------------------------------------------------------ properties

\* the entries of the log that were given to the dispatcher
Dispatched(i) == "PROCESSED" \in log[i].flags

\* the invocations of the dispatcher for the entry with this unique id
ExecutionsOf(uid) == { k \in 1..Len(executed) : executed[k].unique_id = uid }

SuppressionLaw ==
    \A i, j \in 1..Len(log) :
        ( /\ i < j
          /\ log[i].alarm_id = log[j].alarm_id
          /\ log[i].new_status = log[j].new_status
          /\ Dispatched(i) /\ Dispatched(j)
          /\ \A k \in (i + 1)..(j - 1) :
               ~(log[k].alarm_id = log[i].alarm_id /\ Dispatched(k)) )
        => "EXEC_RUN" \notin log[i].flags

\* C3: the first entry of an alarm that runs the notifier is never a clear
\* one: a clear entry runs the notifier only after an older entry of the alarm did
ClearFirstLaw ==
    \A k \in 1..Len(executed) :
        (executed[k].run /\ executed[k].new_status = RRDCALC_STATUS_CLEAR)
        => \E j \in 1..(k - 1) :
             /\ executed[j].alarm_id = executed[k].alarm_id
             /\ executed[j].run

\* C3 happens: the first entry of the alarm was a clear one and did not run the
\* notifier, a later clear one did
ClearFirstLawWitness ==
    \E j, k \in 1..Len(executed) :
        /\ j < k
        /\ executed[j].alarm_id = executed[k].alarm_id
        /\ executed[j].new_status = RRDCALC_STATUS_CLEAR
        /\ executed[j].prior = NoPrior /\ ~executed[j].run
        /\ executed[k].new_status = RRDCALC_STATUS_CLEAR /\ executed[k].run

\* neither silenced nor with no-clear-notification
Plain(flags) == flags \cap {"SILENCED", "NO_CLEAR_NOTIFICATION"} = {}

\* the status of the entry differs from what was notified last for its alarm
\* (a first entry differs unless it is a clear one)
RealChange(r) ==
    IF r.prior = NoPrior THEN r.new_status # RRDCALC_STATUS_CLEAR
    ELSE r.prior # r.new_status

\* the dispatcher ran the notifier for a plain entry of status clear, warning
\* or critical exactly when the entry was a real change
NotifierRunsOnChange ==
    \A k \in 1..Len(executed) :
        LET r == executed[k]
        IN  (r.linked /\ Plain(r.flags) /\ r.new_status >= RRDCALC_STATUS_CLEAR)
            => /\ r.run <=> RealChange(r)
               /\ Cardinality(ExecutionsOf(r.unique_id)) = 1

\* an entry of status clear, warning or critical carries as old status the
\* new status of the entry before it of its alarm (none after a tombstone)
OldStatusIsPrevious ==
    \A i, j \in 1..Len(log) :
        ( /\ i < j
          /\ log[i].alarm_id = log[j].alarm_id
          /\ log[i].new_status >= RRDCALC_STATUS_CLEAR
          /\ \A k \in (i + 1)..(j - 1) : log[k].alarm_id # log[i].alarm_id )
        => log[i].old_status = (IF log[j].new_status = RRDCALC_STATUS_REMOVED
                                THEN RRDCALC_STATUS_UNINITIALIZED
                                ELSE log[j].new_status)

\* the dispatch scan of the tick is over (or the tick has not appended yet)
ScanDone == pc \notin {"repeat", "scan"}

\* the plain entries without delay, of status clear, warning or critical
ZeroDelayChange(i) ==
    /\ Plain(log[i].flags)
    /\ log[i].delay = 0
    /\ log[i].new_status >= RRDCALC_STATUS_CLEAR

LinkedIds == { log[i].unique_id : i \in 1..Len(log) }

\* C5: when health_alarm_log_process has returned, at most max entries are
\* linked in the alarm log
EvictionBound ==
    pc \in {"sleep", "tick"} => Len(log) <= HealthLogMax

\* C6: when eviction runs, the entries left are exactly the floor(2*max/3)
\* entries with the largest unique ids, in their original order
EvictionKeepsNewest ==
    [][ (pc = "evict" /\ pc' # "evict")
        => LET keep == (2 * HealthLogMax) \div 3
           IN  /\ Len(log') = keep
               /\ \A i \in 1..keep : log'[i] = log[i]
               /\ \A i \in 1..keep : \A j \in 1..Len(log) :
                    log[j].unique_id > log'[i].unique_id
                    => \E k \in 1..keep : log'[k].unique_id = log[j].unique_id ]_vars

\* C6 happens: eviction has cut off dispatched entries and floor(2*max/3)
\* entries are linked
EvictionKeepsNewestWitness ==
    /\ pc = "sleep"
    /\ Len(log) = (2 * HealthLogMax) \div 3
    /\ \E k \in 1..Len(executed) :
         executed[k].linked /\ executed[k].unique_id \notin LinkedIds

\* C7: the unique ids strictly decrease along the chain of the alarm log
MonotoneUniqueIds ==
    \A i \in 1..(Len(log) - 1) : log[i].unique_id > log[i + 1].unique_id

\* C7 happens: the log has seen the appends of the main loop, an eviction and
\* the tombstones of a reload
MonotoneUniqueIdsWitness ==
    /\ Len(log) >= 2
    /\ log[1].new_status = RRDCALC_STATUS_REMOVED
    /\ log[2].new_status # RRDCALC_STATUS_REMOVED
    /\ \E k \in 1..Len(executed) :
         executed[k].linked /\ executed[k].unique_id \notin LinkedIds

\* C8: a dispatch scan never leaves health_last_processed_id smaller than it
\* found it
CursorMonotone ==
    [][health_last_processed_id' >= health_last_processed_id]_vars

\* C8 happens: the cursor has advanced, stays behind an entry that waits for
\* its delay, and newer entries were dispatched past it
CursorMonotoneWitness ==
    /\ pc = "sleep"
    /\ health_last_processed_id > 1
    /\ \E i, j \in 1..Len(log) :
         /\ i < j
         /\ Dispatched(i)
         /\ ~Dispatched(j)
         /\ log[j].unique_id = health_last_processed_id

\* C9: after a status change every alarm has delay_up_current and
\* delay_down_current at most delay_max_duration, whichever branch the
\* hysteresis took and whatever durations and multiplier are configured
HysteresisBound ==
    (fn.kind = "hysteresis" /\ fn.changes > 0)
    => /\ fn.rc.delay_up_current <= fn.rc.cfg.delay_max_duration
       /\ fn.rc.delay_down_current <= fn.rc.cfg.delay_max_duration

\* what an expression contributes to the status of its alarm
Contribution(has, ev) ==
    IF ~has \/ ~ev.ok \/ ev.result.class \in {"nan", "inf"} THEN RRDCALC_STATUS_UNDEFINED
    ELSE IF ev.result.v = 0 THEN RRDCALC_STATUS_CLEAR
    ELSE RRDCALC_STATUS_RAISED

\* the table of the composed status
ComposedStatus(ws, cs) ==
    IF cs = RRDCALC_STATUS_RAISED THEN RRDCALC_STATUS_CRITICAL
    ELSE IF ws = RRDCALC_STATUS_RAISED THEN RRDCALC_STATUS_WARNING
    ELSE IF ws = RRDCALC_STATUS_CLEAR \/ cs = RRDCALC_STATUS_CLEAR THEN RRDCALC_STATUS_CLEAR
    ELSE RRDCALC_STATUS_UNDEFINED

\* C10: the composed status is critical if the critical expression is raised,
\* else warning if the warning expression is raised, else clear if one of them
\* is clear, else undefined; a failed evaluation, NaN or an infinite gives
\* undefined, a finite non-zero number raised, zero clear
StatusComposition ==
    (fn.kind = "compose" /\ fn.done)
    => fn.status = ComposedStatus(Contribution(fn.has_warning, fn.warning),
                                  Contribution(fn.has_critical, fn.critical))

\* C10 happens: a raised warning next to a clear critical expression gave warning
StatusCompositionWitness ==
    /\ fn.kind = "compose" /\ fn.done
    /\ fn.has_warning /\ fn.warning = Eval(TRUE, Finite(-1))
    /\ fn.has_critical /\ fn.critical = Eval(TRUE, Finite(0))
    /\ fn.status = RRDCALC_STATUS_WARNING

\* C11: the entry of a status change carries the silenced flag exactly when
\* its alarm does; the dispatcher never runs the notifier for an entry that
\* carries it, and only marks it processed; a raise of an alarm that is not
\* silenced is notified
SilencedNotNotified ==
    /\ \A i \in 1..Len(log) :
         /\ "SILENCED" \in log[i].flags
              <=> "SILENCED" \in alarms[log[i].alarm_id].rrdcalc_flags
         /\ "SILENCED" \in log[i].flags => "EXEC_RUN" \notin log[i].flags
    /\ \A k \in 1..Len(executed) :
         LET r == executed[k]
         IN  /\ "SILENCED" \in r.flags => ~r.run
             /\ ( /\ r.linked
                  /\ "SILENCED" \notin r.flags
                  /\ r.new_status > RRDCALC_STATUS_CLEAR
                  /\ r.prior # r.new_status ) => r.run

\* C11 happens: a silenced alarm was raised to warning; its entry is logged
\* with the silenced flag and was dispatched without the notifier being run
SilencedNotNotifiedWitness ==
    \E i \in 1..Len(log) :
        /\ "SILENCED" \in alarms[log[i].alarm_id].rrdcalc_flags
        /\ log[i].new_status = RRDCALC_STATUS_WARNING
        /\ log[i].flags = {"SILENCED", "PROCESSED"}
        /\ \E k \in ExecutionsOf(log[i].unique_id) : ~executed[k].run

\* C12: the notifier is never run for a clear entry that carries
\* no-clear-notification; the entry is marked processed; a raise of the same
\* alarm that is not silenced is notified
NoClearSuppression ==
    /\ \A k \in 1..Len(executed) :
         LET r == executed[k]
         IN  "NO_CLEAR_NOTIFICATION" \in r.flags
             => /\ r.new_status = RRDCALC_STATUS_CLEAR => ~r.run
                /\ (r.new_status > RRDCALC_STATUS_CLEAR /\ "SILENCED" \notin r.flags)
                     => r.run
    /\ \A i \in 1..Len(log) :
         ( /\ "NO_CLEAR_NOTIFICATION" \in log[i].flags
           /\ log[i].new_status = RRDCALC_STATUS_CLEAR
           /\ ExecutionsOf(log[i].unique_id) # {} )
         => (Dispatched(i) /\ "EXEC_RUN" \notin log[i].flags)

\* C12 happens: an alarm with no-clear-notification went clear, warning, clear;
\* the notifier ran once, for the raise
NoClearSuppressionWitness ==
    /\ Len(executed) = 3
    /\ \A k \in 1..3 : executed[k].flags = {"NO_CLEAR_NOTIFICATION"}
    /\ executed[1].new_status = RRDCALC_STATUS_CLEAR /\ ~executed[1].run
    /\ executed[2].new_status = RRDCALC_STATUS_WARNING /\ executed[2].run
    /\ executed[3].new_status = RRDCALC_STATUS_CLEAR /\ ~executed[3].run
    /\ \A i \in 1..Len(log) : Dispatched(i)

\* since the last tick the realtime clock advanced more than twice as much as
\* the monotonic one
ResumeSeen ==
    /\ last_realtime # 0 /\ last_monotonic # 0
    /\ now - last_realtime > 2 * (monotonic - last_monotonic)

\* the end of the quiet period of the host, as the tick that starts sees it
QuietUpTo == IF ResumeSeen THEN now + HibernationDelay ELSE health_delay_up_to

\* C13: the tick that sees a resume sets health_delay_up_to = now +
\* hibernation_delay; while now < health_delay_up_to the host is skipped: no
\* alarm is evaluated, no entry is appended, no status changes; the first tick
\* with now >= health_delay_up_to resets it to 0 and evaluates again
HibernationPostpone ==
    /\ [](health_delay_up_to # 0 =>
            \/ pc = "sleep" /\ now < health_delay_up_to
            \/ pc = "tick")
    /\ [][ (pc = "tick" /\ pc' # "tick")
           => IF QuietUpTo # 0 /\ now < QuietUpTo
              THEN /\ health_delay_up_to' = QuietUpTo
                   /\ pc' = "sleep"
                   /\ alarms' = alarms /\ log' = log
              ELSE /\ health_delay_up_to' = 0
                   /\ pc' = "lookup" ]_vars
    /\ [][ (health_delay_up_to # 0 /\ health_delay_up_to' # 0)
           => (alarms' = alarms /\ log' = log /\ executed' = executed) ]_vars

\* C13 happens: the system was suspended, the host was postponed for its quiet
\* period, and the tick that starts now evaluates again
HibernationPostponeWitness ==
    /\ pc = "lookup"
    /\ monotonic < now
    /\ last_realtime = now
    /\ last_monotonic = monotonic
    /\ health_delay_up_to = 0
    /\ now >= 1 + MinRunEvery + MaxOversleep + HibernationDelay

\* C14: the notifier is never run for an entry whose new status is below
\* clear; the dispatcher marks it processed without exec-run, so it is never
\* the prior notification of a later entry
InternalNeverNotified ==
    /\ \A k \in 1..Len(executed) :
         LET r == executed[k]
         IN  /\ r.new_status < RRDCALC_STATUS_CLEAR => ~r.run
             /\ r.prior # NoPrior => r.prior >= RRDCALC_STATUS_CLEAR
    /\ \A i \in 1..Len(log) :
         log[i].new_status < RRDCALC_STATUS_CLEAR
         => /\ "EXEC_RUN" \notin log[i].flags
            /\ ExecutionsOf(log[i].unique_id) # {} => Dispatched(i)

\* C14 happens: an undefined entry was dispatched, the warning entry after it
\* found no prior notification and ran the notifier, and the tombstone of a
\* reload was dispatched without the notifier
InternalNeverNotifiedWitness ==
    \E i, j, t \in 1..Len(log) :
        /\ t < i /\ i < j
        /\ log[j].new_status = RRDCALC_STATUS_UNDEFINED /\ Dispatched(j)
        /\ log[i].alarm_id = log[j].alarm_id
        /\ log[i].new_status = RRDCALC_STATUS_WARNING
        /\ \E k \in ExecutionsOf(log[i].unique_id) :
             executed[k].run /\ executed[k].prior = NoPrior
        /\ log[t].new_status = RRDCALC_STATUS_REMOVED
        /\ log[t].flags = {"PROCESSED"}

\* the alarms the tick looked at: the lookup loop did not skip them as disabled
Examined(id) == "DISABLED" \notin alarms[id].rrdcalc_flags

LogCountExact ==
    /\ count = Len(log)
    /\ pc # "aborted"


\* the entry is linked, neither processed nor updated
Waiting(ae) == "PROCESSED" \notin ae.flags /\ "UPDATED" \notin ae.flags

\* the positions in the log of the entry with this unique id
LinkedAt(uid) == { i \in 1..Len(log) : log[i].unique_id = uid }

\* the step of the dispatch scan
ScanStep == pc = "scan" /\ pc' # "scan"

\* C17: a dispatch scan at time now gives the dispatcher only linked entries
\* that are neither processed nor updated and whose delay_up_to_timestamp <= now;
\* a waiting entry whose delay has not elapsed stays as it was, and the cursor
\* the scan leaves is not greater than its unique id
DelayGating ==
    [][ScanStep =>
         /\ Len(executed') >= Len(executed)
         /\ SubSeq(executed', 1, Len(executed)) = executed
         /\ \A k \in (Len(executed) + 1)..Len(executed') :
              /\ executed'[k].linked
              /\ LinkedAt(executed'[k].unique_id) # {}
              /\ \A i \in LinkedAt(executed'[k].unique_id) :
                   /\ Waiting(log[i])
                   /\ log[i].delay_up_to_timestamp <= now
         /\ Len(log') = Len(log)
         /\ \A i \in 1..Len(log) :
              (Waiting(log[i]) /\ log[i].delay_up_to_timestamp > now) =>
                 /\ log'[i] = log[i]
                 /\ \A k \in (Len(executed) + 1)..Len(executed') :
                      executed'[k].unique_id # log[i].unique_id
                 /\ health_last_processed_id' <= log[i].unique_id
    ]_vars

\* a scan has dispatched an entry after its delay, and a later scan has left
\* the next entry waiting for its delay with the cursor on it
DelayGatingWitness ==
    /\ pc = "sleep"
    /\ \E i \in 1..Len(log) :
         /\ Waiting(log[i])
         /\ log[i].delay_up_to_timestamp > now
         /\ health_last_processed_id = log[i].unique_id
    /\ \E j \in 1..Len(log) :
         /\ "PROCESSED" \in log[j].flags
         /\ log[j].delay_up_to_timestamp > log[j].when
         /\ \E k \in ExecutionsOf(log[j].unique_id) : executed[k].linked


\* the step of the decide phase of a tick
DecideStep == pc = "decide" /\ pc' = "repeat"

\* the entries the step pushes on the log for alarm `id`
Appended(id) ==
    { i \in 1..(Len(log') - Len(log)) : log'[i].alarm_id = id }

\* two successive entries of one alarm: the newer one starts where the older
\* one ended, and was made later
Chained ==
    \A i, j \in 1..Len(log) :
        ( /\ i < j
          /\ log[i].alarm_id = log[j].alarm_id
          /\ \A k \in (i + 1)..(j - 1) : log[k].alarm_id # log[i].alarm_id )
        => /\ log[i].old_status = log[j].new_status
           /\ log[i].unique_id > log[j].unique_id
           /\ log[i].when >= log[j].when

\* C18: without reloads, the decide phase of a tick appends for a non-repeating
\* alarm exactly one entry when its status changes and none otherwise; the
\* entry has old_status = the status before, new_status = the status after,
\* new_status # old_status and duration = now - last_status_change; successive
\* entries of an alarm chain old_status to new_status in the order of the log
LogMirrorsTransitions ==
    /\ [](Chained /\ \A i \in 1..Len(log) : log[i].new_status # log[i].old_status)
    /\ [][DecideStep =>
            /\ Len(log') >= Len(log)
            /\ SubSeq(log', Len(log') - Len(log) + 1, Len(log')) = log
            /\ \A id \in DOMAIN alarms :
                 ~rrdcalc_isrepeating(alarms[id]) =>
                   IF alarms'[id].status # alarms[id].status
                   THEN /\ Cardinality(Appended(id)) = 1
                        /\ \A i \in Appended(id) :
                             /\ log'[i].old_status = alarms[id].status
                             /\ log'[i].new_status = alarms'[id].status
                             /\ log'[i].new_status # log'[i].old_status
                             /\ log'[i].when = now
                             /\ log'[i].duration = now - alarms[id].last_status_change
                   ELSE Appended(id) = {}
       ]_vars

\* the decide phase has just appended the third transition of an alarm, some
\* ticks after the second
LogMirrorsTransitionsWitness ==
    /\ pc = "repeat"
    /\ Len(log) >= 3
    /\ log[1].when = now
    /\ log[1].alarm_id = log[2].alarm_id
    /\ log[2].alarm_id = log[3].alarm_id
    /\ log[1].duration >= 2
    /\ log[1].old_status = log[2].new_status
    /\ alarms[log[1].alarm_id].status = log[1].new_status


\* a delay times the multiplier, as the whole number of seconds an int keeps
Product(x, m) ==
    CHOOSE q \in 0..(x * m.num) : q * m.den <= x * m.num /\ (q + 1) * m.den > x * m.num

\* a delay, at most `max`
Capped(x, max) == CHOOSE v \in {x, max} : v <= x /\ v <= max

\* the fields of the hysteresis
DelayFields(rc) ==
    <<rc.delay_up_current, rc.delay_down_current, rc.delay_last, rc.delay_up_to_timestamp>>

\* C19: on a status change at time t, the current delays are reset to the
\* configured durations when t > delay_up_to_timestamp, and else multiplied by
\* delay_multiplier and capped at delay_max_duration; delay_last is the up delay
\* when the status rises and the down delay otherwise, and
\* delay_up_to_timestamp = t + delay_last. An evaluation that keeps the status
\* changes none of these fields
HysteresisStep ==
    [][(fn.kind = "hysteresis" /\ fn' # fn) =>
         LET rc == fn.rc
             after == fn'.rc
             t == fn'.t
             c == fn.rc.cfg
         IN  IF after.status # rc.status
             THEN /\ IF t > rc.delay_up_to_timestamp
                     THEN /\ after.delay_up_current = c.delay_up_duration
                          /\ after.delay_down_current = c.delay_down_duration
                     ELSE /\ after.delay_up_current =
                               Capped(Product(rc.delay_up_current, c.delay_multiplier), c.delay_max_duration)
                          /\ after.delay_down_current =
                               Capped(Product(rc.delay_down_current, c.delay_multiplier), c.delay_max_duration)
                  /\ after.delay_last = (IF after.status > rc.status
                                         THEN after.delay_up_current
                                         ELSE after.delay_down_current)
                  /\ after.delay_up_to_timestamp = t + after.delay_last
             ELSE DelayFields(after) = DelayFields(rc)
    ]_vars

\* the alarm changed status within its delay: its up delay was multiplied above
\* its configured duration, up to the maximum, and an evaluation passed since
\* that kept the status
HysteresisStepWitness ==
    /\ fn.kind = "hysteresis"
    /\ fn.changes >= 2
    /\ fn.rc.delay_up_current > fn.rc.cfg.delay_up_duration
    /\ fn.rc.delay_up_current = fn.rc.cfg.delay_max_duration
    /\ fn.rc.delay_down_current < fn.rc.cfg.delay_max_duration
    /\ fn.rc.delay_last > 0
    /\ fn.t > fn.rc.last_status_change


\* the alarm is a repeating one whose repetition is due at time t
RepeatDue(rc, t) ==
    /\ rrdcalc_isrepeating(rc)
    /\ rc.status \in {RRDCALC_STATUS_WARNING, RRDCALC_STATUS_CRITICAL}
    /\ RepeatEvery(rc) > 0
    /\ rc.last_repeat + RepeatEvery(rc) <= t

\* the invocations of the dispatcher the step adds for alarm `id`
NewExecutions(id) ==
    { k \in (Len(executed) + 1)..Len(executed') : executed'[k].alarm_id = id }

\* the host goes from its alarms to the dispatch scan of the tick
ToScanStep == pc \in {"lookup", "repeat"} /\ pc' = "scan"

\* C20: in every tick in which the host is processed, when it comes to the
\* dispatch scan each repeating alarm that was due has last_repeat = now and
\* the dispatcher was invoked exactly once for it, on an entry that is not
\* linked and has old_status = new_status = the status of the alarm; the log
\* and its count are as before. A tick without runnable alarms is no exception
RepeatingNotifications ==
    [][ToScanStep =>
         /\ log' = log
         /\ count' = count
         /\ \A id \in DOMAIN alarms :
              RepeatDue(alarms[id], now) =>
                /\ alarms'[id].last_repeat = now
                /\ Cardinality(NewExecutions(id)) = 1
                /\ \A k \in NewExecutions(id) :
                     /\ ~executed'[k].linked
                     /\ executed'[k].new_status = alarms[id].status
                     /\ executed'[k].old_status = alarms[id].status
    ]_vars


\* a reload has walked the log, from the entry with the unique id walk.from on
Reloaded == rpc \in {"load", "idle"} /\ walk.from # 0

\* the entry was in the log before the reload, and is not a tombstone
BeforeReload(ae) == ae.unique_id <= walk.from /\ ae.new_status # RRDCALC_STATUS_REMOVED

\* a step of health_reload_host
ReloadStep == rpc' # rpc \/ walk' # walk

\* C21: after health_reload_host every entry that was in the log before it with
\* new_status # removed carries the updated flag, and no dispatch scan gives it
\* to the dispatcher afterwards; the reload takes no entry from the log, leaves
\* count as it is, and leaves exec-run on the entries that ran the notifier
ReloadKeepsLog ==
    /\ [](Reloaded => \A i \in 1..Len(log) :
                         BeforeReload(log[i]) => "UPDATED" \in log[i].flags)
    /\ [][(ScanStep /\ Reloaded) =>
            \A k \in (Len(executed) + 1)..Len(executed') :
                executed'[k].linked => ~BeforeReload(executed'[k])]_vars
    /\ [][ReloadStep =>
            /\ count' = count
            /\ \A i \in 1..Len(log) :
                 LET j == IndexOf(log', log[i].unique_id)
                 IN  /\ j # 0
                     /\ "EXEC_RUN" \in log[i].flags => "EXEC_RUN" \in log'[j].flags]_vars


\* the silencer matches the alarm: each pattern it provides matches the
\* alarm's field
MatchesAlarm(s, rc) ==
    LET field == [alarms_pattern |-> rc.cfg.name, charts_pattern |-> rc.cfg.chart,
                  contexts_pattern |-> rc.cfg.context, hosts_pattern |-> HostName,
                  families_pattern |-> rc.cfg.family]
    IN  \A p \in DOMAIN field : s[p].present => field[p] \in s[p].matches

\* the type that applies to the alarm under the store
EffectiveType(store, rc) ==
    IF store.all_alarms THEN store.stype
    ELSE IF \E i \in 1..Len(store.silencers) : MatchesAlarm(store.silencers[i], rc)
    THEN store.stype
    ELSE "STYPE_NONE"

\* C22: after update_disabled_silenced, whatever flags the alarm had, disabled
\* is set iff the effective type is disable-alarms and silenced iff it is
\* silence-notifications; never both; the function returns true iff disabled is
\* set, and touches no other flag
SilencerFlagsFunction ==
    [][(fn.kind = "silence" /\ fn'.done /\ ~fn.done) =>
         LET flags == fn'.rc.rrdcalc_flags
             type == EffectiveType(fn.store, fn.rc)
         IN  /\ "DISABLED" \in flags <=> type = "STYPE_DISABLE_ALARMS"
             /\ "SILENCED" \in flags <=> type = "STYPE_SILENCE_NOTIFICATIONS"
             /\ ~("DISABLED" \in flags /\ "SILENCED" \in flags)
             /\ fn'.ret # 0 <=> "DISABLED" \in flags
             /\ flags \ {"DISABLED", "SILENCED"} = fn.rc.rrdcalc_flags \ {"DISABLED", "SILENCED"}
    ]_vars

\* an alarm that was disabled and runnable is now silenced only: the first
\* silencer of the store does not match it, the second does
SilencerFlagsFunctionWitness ==
    /\ fn.kind = "silence"
    /\ fn.done
    /\ ~fn.store.all_alarms
    /\ Len(fn.store.silencers) = 2
    /\ ~MatchesAlarm(fn.store.silencers[1], fn.rc)
    /\ MatchesAlarm(fn.store.silencers[2], fn.rc)
    /\ fn.rc.rrdcalc_flags = {"SILENCED", "RUNNABLE"}
    /\ fn.ret = 0


\* the notifier is spawned for the entry of this invocation: a plain entry of
\* status clear, warning or critical that is a real change
Spawned(r) ==
    /\ Plain(r.flags)
    /\ r.new_status >= RRDCALC_STATUS_CLEAR
    /\ RealChange(r)

\* C23: an entry the notifier is spawned for has exec-run, whatever the
\* notifier does; exec-failed is on an entry iff its exec_code is not zero; an
\* entry whose alarm was last notified with the same status is not notified,
\* also when that notification failed; and the scan goes through all the
\* entries that are due and health_main goes on, whatever the notifier does
FailureRecorded ==
    /\ [](\A i \in 1..Len(log) :
            /\ "EXEC_FAILED" \in log[i].flags <=> log[i].exec_code # 0
            /\ "EXEC_FAILED" \in log[i].flags => "EXEC_RUN" \in log[i].flags)
    /\ [][ScanStep =>
            /\ \A k \in (Len(executed) + 1)..Len(executed') :
                 LET r == executed'[k]
                 IN  /\ Spawned(r) =>
                        \A i \in 1..Len(log') :
                            log'[i].unique_id = r.unique_id => "EXEC_RUN" \in log'[i].flags
                     /\ (Plain(r.flags) /\ r.prior = r.new_status) => ~r.run
            /\ \A i \in DueEntries(log, alarms, health_last_processed_id, now) :
                 "PROCESSED" \in log'[i].flags
            /\ pc' \in {"sleep", "evict"}
       ]_vars

\* a notification failed; a later entry of the alarm with the same status was
\* dispatched and not notified, and a still later one was dispatched too
FailureRecordedWitness ==
    \E i, j, k \in 1..Len(log) :
        /\ k < i /\ i < j
        /\ log[i].alarm_id = log[j].alarm_id
        /\ {"EXEC_RUN", "EXEC_FAILED"} \subseteq log[j].flags
        /\ log[i].new_status = log[j].new_status
        /\ Plain(log[i].flags)
        /\ "PROCESSED" \in log[i].flags
        /\ "EXEC_RUN" \notin log[i].flags
        /\ \A m \in (i + 1)..(j - 1) : "EXEC_RUN" \notin log[m].flags
        /\ "PROCESSED" \in log[k].flags


\* C24: no reload runs while health_main holds the global registry lock for a
\* tick's iteration over the hosts; the alarms of the host are not torn down
\* between the lookup phase and the decide phase of a tick
ReloadExcludesTick ==
    /\ []("rrd" \in held => rpc = "idle")
    /\ [][("rrd" \in held) => ~ReloadStep]_vars
    /\ [][(pc = "decide" /\ pc' = "decide") => alarms' = alarms]_vars


\* the places of health_main between two phases, between two ticks and before
\* the sleep
BetweenPhases == {"tick", "decide", "repeat", "scan", "sleep"}

\* C25: once the exit flag is set, health_main at a place between two phases
\* starts no further phase; it terminates; and when it has left its loop it
\* holds no registry lock
CleanShutdown ==
    /\ [][(netdata_exit /\ pc \in BetweenPhases) => pc' \in {pc, "exited"}]_vars
    /\ [](pc = "exited" => held = {})
    /\ (netdata_exit ~> pc \in {"exited", "aborted"})


\* C26: between dispatch scans every linked entry that is not of a repeating
\* alarm and is neither processed nor updated has a unique id at or above
\* health_last_processed_id, so that the next scan visits it
NoPendingStranded ==
    \A i \in 1..Len(log) :
        IsPending(alarms, log[i]) => log[i].unique_id >= health_last_processed_id


\* health_alarm_log_process frees entries of the log in this step
EvictionStep == pc = "evict" /\ pc' # "evict"

\* C27: with a reload running beside health_main, the walk of the reload never
\* touches a log entry that eviction has freed, and no eviction runs while the
\* walk is under way
NoFreedEntryAccess ==
    /\ [](~walk.freed)
    /\ [][EvictionStep => rpc # "walk"]_vars


\* the decide loop or the repeating loop of a tick runs in this step
PhaseStep == pc \in {"decide", "repeat"} /\ pc' # pc

\* C28: in a tick in which update_disabled_silenced has set the disabled flag
\* on an alarm, the decide and repeating loops leave the alarm's status and
\* evaluation time as they are, link no log entry for it and do not invoke
\* health_alarm_execute on an entry made for it, the repeat of a repeating
\* alarm being due or not
DisabledAlarmQuiet ==
    [][PhaseStep =>
         \A id \in DOMAIN alarms :
            "DISABLED" \in alarms[id].rrdcalc_flags =>
              /\ alarms'[id].status = alarms[id].status
              /\ alarms'[id].last_updated = alarms[id].last_updated
              /\ \A i \in 1..Len(log') :
                   log'[i].alarm_id = id => log'[i].unique_id \in LinkedIds
              /\ NewExecutions(id) = {}
    ]_vars

====
